---- MODULE Spec2Model ----
(***************************************************************************)
(* Wire data model of phylum-types (src/types/job.rs, src/types/package.rs)*)
(* as a state machine: a producer serializes a value, the JSON document is *)
(* in flight, a consumer deserializes it; identifier and risk conversions  *)
(* are calls whose argument and result are recorded.                       *)
(*                                                                         *)
(* Each struct is the table of its fields with their serde attributes;     *)
(* Serialize / Deserialize interpret the tables the way the derived impls  *)
(* do (rename, alias, default, skip, skip_serializing_if, flatten,         *)
(* untagged, tag + content).                                               *)
(***************************************************************************)
EXTENDS Integers, Sequences, FiniteSets, TLC

VARIABLES
    phase,  \* "idle" | "encoded" | "received" | "decoded" | "called"
    ty,     \* the type the document in flight is (de)serialized as
    sent,   \* <<v>>: the value the producer serialized; <<>>: a raw payload
    wire,   \* <<j>>: the JSON document in flight
    recv,   \* <<r>>: the consumer's Result of deserializing wire
    call    \* <<c>>: the last conversion call, [op, arg, res]

vars == <<phase, ty, sent, wire, recv, call>>

----------------------------------------------------------------------------
(* Result<T, E> *)
Ok(v) == [ok |-> TRUE, v |-> v]
Err(e) == [ok |-> FALSE, e |-> e]

(* JSON documents (serde_json::Value) *)
JNull == [t |-> "null"]
JStr(s) == [t |-> "str", s |-> s]
JNum(n) == [t |-> "num", n |-> n]
JBool(b) == [t |-> "bool", b |-> b]
JArr(a) == [t |-> "arr", a |-> a]
JObj(o) == [t |-> "obj", o |-> o]

(* The empty JSON object / the object holding nothing yet *)
NoKeys == <<>>

(* Option<T>: None, Some(x) *)
None == <<>>
Some(x) == <<x>>

----------------------------------------------------------------------------
(* Type descriptors *)
TString == [k |-> "String"]
TBool == [k |-> "bool"]
TU32 == [k |-> "u32"]
TU64 == [k |-> "u64"]
TUsize == [k |-> "usize"]
TI64 == [k |-> "i64"]
TF32 == [k |-> "f32"]
TF64 == [k |-> "f64"]
TOption(t) == [k |-> "Option", of |-> t]
TVec(t) == [k |-> "Vec", of |-> t]
THashMap(t) == [k |-> "HashMap", of |-> t]
TStruct(n) == [k |-> "struct", name |-> n]
TEnum(n) == [k |-> "enum", name |-> n]
TUntagged(n) == [k |-> "untagged", name |-> n]
TAdjacent(n) == [k |-> "adjacent", name |-> n]

(* A struct field and its serde attributes *)
Field(n, t) ==
    [name |-> n, wire |-> n, alias |-> {}, ty |-> t, default |-> FALSE,
     skip_none |-> FALSE, skip |-> FALSE, flatten |-> FALSE]
Rename(f, w) == [f EXCEPT !.wire = w]
Alias(f, a) == [f EXCEPT !.alias = @ \cup {a}]
Default(f) == [f EXCEPT !.default = TRUE]
SkipIfNone(f) == [f EXCEPT !.skip_none = TRUE]
Skip(f) == [f EXCEPT !.skip = TRUE]
Flatten(f) == [f EXCEPT !.flatten = TRUE]
(* #[serde(default)] on the struct: every missing field takes its default *)
StructDefault(fields) == [i \in DOMAIN fields |-> Default(fields[i])]

(* A unit variant of an enum: its Rust name, wire name and aliases *)
Variant(n, w) == [name |-> n, wire |-> w, alias |-> {}]

----------------------------------------------------------------------------
(* src/types/common.rs is not part of the sources at hand: the identifier  *)
(* newtypes are strings on the wire and Status is a unit enum.             *)
JobId == TString
UserId == TString
ProjectId == TString
Status ==
    << Variant("Complete", "complete"),
       Variant("Incomplete", "incomplete") >>

(* chrono::DateTime<Utc>: an RFC 3339 string on the wire *)
TDateTime == [k |-> "DateTime"]

----------------------------------------------------------------------------
(* package.rs: the unit enums *)
RiskDomain ==
    << Variant("AuthorRisk", "author"),
       Variant("EngineeringRisk", "engineering"),
       Alias(Variant("Malicious", "malicious_code"), "malicious"),
       Variant("Vulnerabilities", "vulnerability"),
       Variant("LicenseRisk", "license") >>

RiskLevel ==
    << Variant("Info", "info"),
       Variant("Low", "low"),
       Variant("Medium", "medium"),
       Variant("High", "high"),
       Variant("Critical", "critical") >>

PackageType ==
    << Variant("Npm", "npm"),
       Variant("PyPi", "pypi"),
       Variant("Maven", "maven"),
       Variant("RubyGems", "rubygems"),
       Variant("Nuget", "nuget"),
       Variant("Cargo", "cargo"),
       Variant("Golang", "golang") >>

RiskType ==
    << Variant("TotalRisk", "totalRisk"),
       Variant("Vulnerabilities", "vulnerabilities"),
       Alias(Variant("MaliciousRisk", "maliciousCodeRisk"), "maliciousRisk"),
       Variant("AuthorsRisk", "authorsRisk"),
       Variant("EngineeringRisk", "engineeringRisk"),
       Variant("LicenseRisk", "licenseRisk") >>

(* package.rs: the structs *)
ScoredVersion ==
    << Field("version", TString),
       Field("total_risk_score", TOption(TF32)) >>

PackageSpecifier ==
    << Alias(Field("registry", TString), "type"),
       Field("name", TString),
       Field("version", TString) >>

RiskScores ==
    << Field("total", TF32),
       Field("vulnerability", TF32),
       Alias(Rename(Field("malicious", TF32), "malicious_code"), "malicious"),
       Field("author", TF32),
       Field("engineering", TF32),
       Field("license", TF32) >>

ScoreDynamicsPoint ==
    << Rename(Field("date_time", TDateTime), "dateTime"),
       Field("score", TF32),
       Field("label", TString) >>

Issue ==
    << Field("tag", TOption(TString)),
       Field("id", TOption(TString)),
       Field("title", TString),
       Field("description", TString),
       Alias(Field("severity", TEnum("RiskLevel")), "risk_level"),
       Alias(Field("domain", TEnum("RiskDomain")), "risk_domain"),
       Skip(Field("rule", TOption(TString))) >>

IssuesListItem ==
    << Rename(Field("risk_type", TEnum("RiskType")), "riskType"),
       Field("score", TF32),
       Field("impact", TEnum("RiskLevel")),
       Field("description", TString),
       Field("title", TString),
       Field("tag", TOption(TString)),
       Field("id", TOption(TString)),
       Field("ignored", TOption(TString)) >>

Author ==
    << Field("name", TString),
       Rename(Field("avatar_url", TString), "avatarUrl"),
       Field("email", TString),
       Rename(Field("profile_url", TString), "profileUrl") >>

DeveloperResponsiveness ==
    << Field("open_issue_count", TOption(TUsize)),
       Field("total_issue_count", TOption(TUsize)),
       Field("open_issue_avg_duration", TOption(TU32)),
       Field("open_pull_request_count", TOption(TUsize)),
       Field("total_pull_request_count", TOption(TUsize)),
       Field("open_pull_request_avg_duration", TOption(TU32)) >>

PackageSubmitResponse ==
    [tag |-> "status", content |-> "data",
     variants |->
        << [name |-> "AlreadyProcessed", ty |-> Some(TStruct("Package"))],
           [name |-> "AlreadySubmitted", ty |-> None],
           [name |-> "New", ty |-> None] >>]

Package ==
    StructDefault(
    << SkipIfNone(Field("purl", TOption(TString))),
       Field("id", TString),
       Field("name", TString),
       Field("version", TString),
       Field("registry", TString),
       Rename(Field("published_date", TOption(TString)), "publishedDate"),
       Rename(Field("latest_version", TOption(TString)), "latestVersion"),
       Field("versions", TVec(TStruct("ScoredVersion"))),
       Field("description", TOption(TString)),
       Field("license", TOption(TString)),
       Rename(Field("dep_specs", TVec(TStruct("PackageSpecifier"))), "depSpecs"),
       Field("dependencies", TOption(TVec(TStruct("Package")))),
       Rename(Field("download_count", TU32), "downloadCount"),
       Rename(Field("risk_scores", TStruct("RiskScores")), "riskScores"),
       Rename(Field("total_risk_score_dynamics",
                    TOption(TVec(TStruct("ScoreDynamicsPoint")))),
              "totalRiskScoreDynamics"),
       Rename(Field("issues_details", TVec(TStruct("Issue"))), "issuesDetails"),
       Field("issues", TVec(TStruct("IssuesListItem"))),
       Field("authors", TVec(TStruct("Author"))),
       Rename(Field("developer_responsiveness",
                    TOption(TStruct("DeveloperResponsiveness"))),
              "developerResponsiveness"),
       Field("complete", TBool),
       Rename(Field("release_data", TOption(TStruct("PackageReleaseData"))),
              "releaseData"),
       Rename(Field("repo_url", TOption(TString)), "repoUrl"),
       Rename(Field("maintainers_recently_changed", TOption(TBool)),
              "maintainersRecentlyChanged"),
       Rename(Field("is_abandonware", TOption(TBool)), "isAbandonware") >>)

PackageReleaseData ==
    StructDefault(
    << Rename(Field("first_release_date", TString), "firstReleaseDate"),
       Rename(Field("last_release_date", TString), "lastReleaseDate") >>)

HeuristicResult ==
    << Field("domain", TEnum("RiskDomain")),
       Field("score", TF64),
       Field("risk_level", TEnum("RiskLevel")) >>

Vulnerability ==
    << Field("cve", TVec(TString)),
       Rename(Field("base_severity", TF32), "severity"),
       Field("risk_level", TEnum("RiskLevel")),
       Field("title", TString),
       Field("description", TString),
       Field("remediation", TString) >>

(* package_type without its alias *)
PackageDescriptor_NoAlias ==
    << Field("name", TString),
       Field("version", TString),
       Rename(Field("package_type", TEnum("PackageType")), "type") >>

PackageDescriptor ==
    << Field("name", TString),
       Field("version", TString),
       Alias(Rename(Field("package_type", TEnum("PackageType")), "type"),
             "registry") >>

PackageDescriptorAndLockfile ==
    << Flatten(Field("package_descriptor", TStruct("PackageDescriptor"))),
       SkipIfNone(Field("lockfile", TOption(TString))) >>

PackageSpecifierAndLockfile ==
    << Field("package_specifier", TStruct("PackageSpecifier")),
       Field("lockfile", TOption(TString)) >>

PackageUrlAndLockfile ==
    << Field("purl", TString),
       Field("lockfile", TOption(TString)) >>

(* num_vulnerabilities skipped outright instead of skipped when absent *)
PackageStatus_VulnerabilitiesSkipped ==
    << SkipIfNone(Field("purl", TOption(TString))),
       Field("name", TString),
       Field("version", TString),
       Field("status", TEnum("Status")),
       Field("last_updated", TU64),
       Field("license", TOption(TString)),
       Field("package_score", TOption(TF64)),
       Field("num_dependencies", TU32),
       Skip(Field("num_vulnerabilities", TOption(TU32))) >>

PackageStatus ==
    << SkipIfNone(Field("purl", TOption(TString))),
       Field("name", TString),
       Field("version", TString),
       Field("status", TEnum("Status")),
       Field("last_updated", TU64),
       Field("license", TOption(TString)),
       Field("package_score", TOption(TF64)),
       Field("num_dependencies", TU32),
       SkipIfNone(Field("num_vulnerabilities", TOption(TU32))) >>

PackageStatusExtended ==
    << Flatten(Field("basic_status", TStruct("PackageStatus"))),
       Rename(Field("package_type", TEnum("PackageType")), "type"),
       Rename(Field("risk_vectors", THashMap(TF64)), "riskVectors"),
       Field("dependencies", THashMap(TString)),
       Field("issues", TVec(TStruct("IssueStatus"))) >>

IssueStatus ==
    << Flatten(Field("issue", TStruct("Issue"))),
       Default(Field("ignored", TOption(TString))) >>

----------------------------------------------------------------------------
(* job.rs *)
JobDescriptor ==
    << Field("job_id", JobId),
       Field("project", TString),
       Field("label", TString),
       Field("num_dependencies", TU32),
       Field("packages", TVec(TStruct("PackageDescriptorAndLockfile"))),
       Field("pass", TBool),
       Field("msg", TString),
       Field("date", TString),
       Default(Field("ecosystems", TVec(TString))),
       Default(Field("num_incomplete", TU32)) >>

SubmitPackageRequest ==
    << Field("packages", TVec(TStruct("PackageDescriptorAndLockfile"))),
       Field("is_user", TBool),
       Field("project", ProjectId),
       Field("label", TString),
       SkipIfNone(Field("group_name", TOption(TString))) >>

SubmitPackageResponse ==
    << Field("job_id", JobId) >>

AllJobsStatusResponse ==
    << Field("jobs", TVec(TStruct("JobDescriptor"))),
       Field("total_jobs", TU32),
       Field("count", TU32) >>

(* The variants in the other order: the simpler shape is tried first *)
JobStatusResponseVariant_BasicFirst ==
    << [name |-> "Basic",
        ty |-> TStruct("JobStatusResponse<PackageStatus>")],
       [name |-> "Extended",
        ty |-> TStruct("JobStatusResponse<PackageStatusExtended>")] >>

(* Serde returns the one that deserializes successfully first *)
JobStatusResponseVariant ==
    << [name |-> "Extended",
        ty |-> TStruct("JobStatusResponse<PackageStatusExtended>")],
       [name |-> "Basic",
        ty |-> TStruct("JobStatusResponse<PackageStatus>")] >>

JobStatusResponse(T) ==
    << Field("job_id", JobId),
       Default(Field("ecosystems", TVec(TString))),
       Field("user_id", UserId),
       Field("user_email", TString),
       Field("created_at", TI64),
       Field("status", TEnum("Status")),
       Field("pass", TBool),
       Field("msg", TString),
       Default(Field("num_incomplete", TU32)),
       Field("last_updated", TU64),
       Field("project", TString),
       Field("project_name", TString),
       Field("label", TOption(TString)),
       Field("packages", TVec(T)) >>

CancelJobResponse ==
    << Field("msg", TString) >>

----------------------------------------------------------------------------
(* The field table of a struct, the variant table of an enum *)
Fields(n) ==
    CASE n = "ScoredVersion" -> ScoredVersion
      [] n = "PackageSpecifier" -> PackageSpecifier
      [] n = "RiskScores" -> RiskScores
      [] n = "ScoreDynamicsPoint" -> ScoreDynamicsPoint
      [] n = "Issue" -> Issue
      [] n = "IssuesListItem" -> IssuesListItem
      [] n = "Author" -> Author
      [] n = "DeveloperResponsiveness" -> DeveloperResponsiveness
      [] n = "Package" -> Package
      [] n = "PackageReleaseData" -> PackageReleaseData
      [] n = "HeuristicResult" -> HeuristicResult
      [] n = "Vulnerability" -> Vulnerability
      [] n = "PackageDescriptor" -> PackageDescriptor
      [] n = "PackageDescriptorAndLockfile" -> PackageDescriptorAndLockfile
      [] n = "PackageSpecifierAndLockfile" -> PackageSpecifierAndLockfile
      [] n = "PackageUrlAndLockfile" -> PackageUrlAndLockfile
      [] n = "PackageStatus" -> PackageStatus
      [] n = "PackageStatusExtended" -> PackageStatusExtended
      [] n = "IssueStatus" -> IssueStatus
      [] n = "JobDescriptor" -> JobDescriptor
      [] n = "SubmitPackageRequest" -> SubmitPackageRequest
      [] n = "SubmitPackageResponse" -> SubmitPackageResponse
      [] n = "AllJobsStatusResponse" -> AllJobsStatusResponse
      [] n = "JobStatusResponse<PackageStatusExtended>" ->
            JobStatusResponse(TStruct("PackageStatusExtended"))
      [] n = "JobStatusResponse<PackageStatus>" ->
            JobStatusResponse(TStruct("PackageStatus"))
      [] n = "CancelJobResponse" -> CancelJobResponse

Variants(n) ==
    CASE n = "RiskDomain" -> RiskDomain
      [] n = "RiskLevel" -> RiskLevel
      [] n = "PackageType" -> PackageType
      [] n = "RiskType" -> RiskType
      [] n = "Status" -> Status

----------------------------------------------------------------------------
(* Default::default() of a type *)
RECURSIVE DefaultOf(_)
DefaultOf(t) ==
    CASE t.k \in {"String", "DateTime"} -> ""
      [] t.k \in {"u32", "u64", "usize", "i64", "f32", "f64"} -> 0
      [] t.k = "bool" -> FALSE
      [] t.k = "Option" -> None
      [] t.k = "Vec" -> <<>>
      [] t.k = "HashMap" -> {}
      [] t.k = "struct" ->
            LET fs == Fields(t.name)
            IN  [n \in {fs[i].name : i \in DOMAIN fs} |->
                    DefaultOf((CHOOSE f \in {fs[i] : i \in DOMAIN fs} :
                                  f.name = n).ty)]

(* A HashMap<String, T> is the set of its <<key, value>> entries *)
MapKeys(m) == {e[1] : e \in m}
MapGet(m, key) == (CHOOSE e \in m : e[1] = key)[2]

(* The variant of an adjacently tagged or untagged enum value *)
VariantOf(variants, n) ==
    CHOOSE x \in {variants[i] : i \in DOMAIN variants} : x.name = n

----------------------------------------------------------------------------
(* Serialize: the derived impl of a type, applied to a value of it *)
RECURSIVE Serialize(_, _), SerializeStruct(_, _)

(* A unit variant written with a null payload *)
SerializeAdjacent_NullData(e, v) ==
    LET x == VariantOf(e.variants, v.variant)
    IN  IF x.ty = None
        THEN JObj((e.tag :> JStr(x.name)) @@ (e.content :> JNull))
        ELSE JObj((e.tag :> JStr(x.name))
                  @@ (e.content :> Serialize(x.ty[1], v.v[1])))

(* #[serde(tag = "status", content = "data")]: the tag names the variant,  *)
(* the content key holds the payload of a variant that has one             *)
SerializeAdjacent(e, v) ==
    LET x == VariantOf(e.variants, v.variant)
    IN  IF x.ty = None
        THEN JObj(e.tag :> JStr(x.name))
        ELSE JObj((e.tag :> JStr(x.name))
                  @@ (e.content :> Serialize(x.ty[1], v.v[1])))

Serialize(t, v) ==
    CASE t.k \in {"String", "DateTime"} -> JStr(v)
      [] t.k \in {"u32", "u64", "usize", "i64", "f32", "f64"} -> JNum(v)
      [] t.k = "bool" -> JBool(v)
      [] t.k = "Option" ->
            IF v = None THEN JNull ELSE Serialize(t.of, v[1])
      [] t.k = "Vec" -> JArr([i \in DOMAIN v |-> Serialize(t.of, v[i])])
      [] t.k = "HashMap" ->
            JObj([key \in MapKeys(v) |-> Serialize(t.of, MapGet(v, key))])
      [] t.k = "enum" ->
            JStr((CHOOSE x \in {Variants(t.name)[i] :
                                  i \in DOMAIN Variants(t.name)} :
                      x.name = v).wire)
      [] t.k = "struct" -> JObj(SerializeStruct(Fields(t.name), v))
      [] t.k = "untagged" ->
            \* #[serde(untagged)]: the variant's content and nothing else
            Serialize(VariantOf(JobStatusResponseVariant, v.variant).ty, v.v)
      [] t.k = "adjacent" -> SerializeAdjacent(PackageSubmitResponse, v)

(* The keys a struct contributes to the object it is serialized into *)
SerializeStruct(fields, v) ==
    IF Len(fields) = 0 THEN NoKeys
    ELSE LET f == Head(fields)
             here ==
                IF f.skip THEN NoKeys
                ELSE IF f.flatten
                     THEN SerializeStruct(Fields(f.ty.name), v[f.name])
                ELSE IF f.skip_none /\ v[f.name] = None THEN NoKeys
                ELSE f.wire :> Serialize(f.ty, v[f.name])
         IN  here @@ SerializeStruct(Tail(fields), v)

----------------------------------------------------------------------------
(* The keys a struct's own (not flattened, not skipped) fields answer to *)
OwnKeys(fields) ==
    UNION {{fields[i].wire} \cup fields[i].alias :
              i \in {j \in DOMAIN fields :
                        ~fields[j].flatten /\ ~fields[j].skip}}

(* Deserialize: the derived impl of a type, applied to a JSON document *)
RECURSIVE Deserialize(_, _), DeserializeStruct(_, _), DeserializeUntagged(_, _)
Deserialize(t, j) ==
    CASE t.k \in {"String", "DateTime"} ->
            IF j.t = "str" THEN Ok(j.s) ELSE Err("invalid type")
      [] t.k \in {"u32", "u64", "usize"} ->
            IF j.t = "num" /\ j.n >= 0 THEN Ok(j.n) ELSE Err("invalid type")
      [] t.k \in {"i64", "f32", "f64"} ->
            IF j.t = "num" THEN Ok(j.n) ELSE Err("invalid type")
      [] t.k = "bool" ->
            IF j.t = "bool" THEN Ok(j.b) ELSE Err("invalid type")
      [] t.k = "Option" ->
            IF j.t = "null" THEN Ok(None)
            ELSE LET r == Deserialize(t.of, j)
                 IN  IF r.ok THEN Ok(Some(r.v)) ELSE r
      [] t.k = "Vec" ->
            IF j.t # "arr" THEN Err("invalid type")
            ELSE LET rs == [i \in DOMAIN j.a |-> Deserialize(t.of, j.a[i])]
                 IN  IF \A i \in DOMAIN rs : rs[i].ok
                     THEN Ok([i \in DOMAIN rs |-> rs[i].v])
                     ELSE Err("invalid element")
      [] t.k = "HashMap" ->
            IF j.t # "obj" THEN Err("invalid type")
            ELSE LET rs == [key \in DOMAIN j.o |-> Deserialize(t.of, j.o[key])]
                 IN  IF \A key \in DOMAIN rs : rs[key].ok
                     THEN Ok({<<key, rs[key].v>> : key \in DOMAIN rs})
                     ELSE Err("invalid entry")
      [] t.k = "enum" ->
            LET vs == Variants(t.name)
                hit == {vs[i] : i \in {x \in DOMAIN vs :
                            j.t = "str" /\ j.s \in {vs[x].wire} \cup vs[x].alias}}
            IN  IF hit = {} THEN Err("unknown variant")
                ELSE Ok((CHOOSE x \in hit : TRUE).name)
      [] t.k = "struct" ->
            IF j.t = "obj" THEN DeserializeStruct(Fields(t.name), j.o)
            ELSE Err("invalid type")
      [] t.k = "untagged" -> DeserializeUntagged(JobStatusResponseVariant, j)
      [] t.k = "adjacent" ->
            LET e == PackageSubmitResponse
                names == {e.variants[i].name : i \in DOMAIN e.variants}
            IN  IF j.t # "obj" THEN Err("invalid type")
                ELSE IF e.tag \notin DOMAIN j.o THEN Err("missing field")
                ELSE IF ~(j.o[e.tag].t = "str" /\ j.o[e.tag].s \in names)
                     THEN Err("unknown variant")
                ELSE LET x == VariantOf(e.variants, j.o[e.tag].s)
                         has == e.content \in DOMAIN j.o
                     IN  IF x.ty = None
                         THEN IF has /\ j.o[e.content].t # "null"
                              THEN Err("invalid type")
                              ELSE Ok([variant |-> x.name, v |-> None])
                         ELSE IF ~has THEN Err("missing field")
                         ELSE LET r == Deserialize(x.ty[1], j.o[e.content])
                              IN  IF r.ok
                                  THEN Ok([variant |-> x.name, v |-> Some(r.v)])
                                  ELSE r

(* One struct from the keys of an object; a flattened field sees the keys  *)
(* the struct's own fields do not take, unknown keys are ignored           *)
DeserializeStruct(fields, obj) ==
    LET one(f) ==
            IF f.skip THEN Ok(DefaultOf(f.ty))
            ELSE IF f.flatten
                 THEN DeserializeStruct(Fields(f.ty.name),
                        [key \in DOMAIN obj \ OwnKeys(fields) |-> obj[key]])
            ELSE LET present == ({f.wire} \cup f.alias) \cap DOMAIN obj
                 IN  IF Cardinality(present) > 1 THEN Err("duplicate field")
                     ELSE IF Cardinality(present) = 1
                          THEN Deserialize(f.ty, obj[CHOOSE key \in present : TRUE])
                     ELSE IF f.default THEN Ok(DefaultOf(f.ty))
                     ELSE IF f.ty.k = "Option" THEN Ok(None)
                     ELSE Err("missing field")
        rs == [i \in DOMAIN fields |-> one(fields[i])]
    IN  IF \A i \in DOMAIN rs : rs[i].ok
        THEN Ok([n \in {fields[i].name : i \in DOMAIN fields} |->
                    rs[CHOOSE i \in DOMAIN fields : fields[i].name = n].v])
        ELSE Err("invalid struct")

(* The first variant's failure returned instead of trying the next *)
DeserializeUntagged_NoFallback(variants, j) ==
    IF Len(variants) = 0
    THEN Err("data did not match any variant of untagged enum")
    ELSE LET r == Deserialize(Head(variants).ty, j)
         IN  IF r.ok THEN Ok([variant |-> Head(variants).name, v |-> r.v])
             ELSE r

(* The last variant that deserializes instead of the first *)
DeserializeUntagged_LastMatch(variants, j) ==
    IF Len(variants) = 0
    THEN Err("data did not match any variant of untagged enum")
    ELSE LET rest == DeserializeUntagged(Tail(variants), j)
         IN  IF rest.ok THEN rest
             ELSE LET r == Deserialize(Head(variants).ty, j)
                  IN  IF r.ok
                      THEN Ok([variant |-> Head(variants).name, v |-> r.v])
                      ELSE rest

(* #[serde(untagged)]: the first variant that deserializes, in order *)
DeserializeUntagged(variants, j) ==
    IF Len(variants) = 0
    THEN Err("data did not match any variant of untagged enum")
    ELSE LET r == Deserialize(Head(variants).ty, j)
         IN  IF r.ok THEN Ok([variant |-> Head(variants).name, v |-> r.v])
             ELSE DeserializeUntagged(Tail(variants), j)

----------------------------------------------------------------------------
(* Strings the conversions inspect are sequences of characters *)
UpperCase ==
    << "A", "B", "C", "D", "E", "F", "G", "H", "I", "J", "K", "L", "M",
       "N", "O", "P", "Q", "R", "S", "T", "U", "V", "W", "X", "Y", "Z" >>
LowerCase ==
    << "a", "b", "c", "d", "e", "f", "g", "h", "i", "j", "k", "l", "m",
       "n", "o", "p", "q", "r", "s", "t", "u", "v", "w", "x", "y", "z" >>

(* str::to_lowercase *)
to_lowercase(s) ==
    [i \in DOMAIN s |->
        IF \E c \in DOMAIN UpperCase : UpperCase[c] = s[i]
        THEN LowerCase[CHOOSE c \in DOMAIN UpperCase : UpperCase[c] = s[i]]
        ELSE s[i]]

(* () *)
Unit == <<>>

(* from_str matching the input as given, without lower-casing it *)
from_str_CaseSensitive(input) ==
    LET l == input
    IN  CASE l = <<"n", "p", "m">> -> Ok("Npm")
          [] l \in {<<"p", "y", "t", "h", "o", "n">>, <<"p", "y", "p", "i">>} ->
                Ok("PyPi")
          [] l \in {<<"m", "a", "v", "e", "n">>,
                    <<"m", "a", "v", "e", "n", "-",
                      "c", "e", "n", "t", "r", "a", "l">>} ->
                Ok("Maven")
          [] l \in {<<"r", "u", "b", "y">>,
                    <<"r", "u", "b", "y", "g", "e", "m", "s">>,
                    <<"g", "e", "m">>} ->
                Ok("RubyGems")
          [] l \in {<<"n", "u", "g", "e", "t">>,
                    <<"d", "o", "t", "n", "e", "t">>} ->
                Ok("Nuget")
          [] l = <<"c", "a", "r", "g", "o">> -> Ok("Cargo")
          [] l = <<"g", "o", "l", "a", "n", "g">> -> Ok("Golang")
          [] OTHER -> Err(Unit)

(* impl FromStr for PackageType *)
from_str(input) ==
    LET l == to_lowercase(input)
    IN  CASE l = <<"n", "p", "m">> -> Ok("Npm")
          [] l \in {<<"p", "y", "t", "h", "o", "n">>, <<"p", "y", "p", "i">>} ->
                Ok("PyPi")
          [] l \in {<<"m", "a", "v", "e", "n">>,
                    <<"m", "a", "v", "e", "n", "-",
                      "c", "e", "n", "t", "r", "a", "l">>} ->
                Ok("Maven")
          [] l \in {<<"r", "u", "b", "y">>,
                    <<"r", "u", "b", "y", "g", "e", "m", "s">>,
                    <<"g", "e", "m">>} ->
                Ok("RubyGems")
          [] l \in {<<"n", "u", "g", "e", "t">>,
                    <<"d", "o", "t", "n", "e", "t">>} ->
                Ok("Nuget")
          [] l = <<"c", "a", "r", "g", "o">> -> Ok("Cargo")
          [] l = <<"g", "o", "l", "a", "n", "g">> -> Ok("Golang")
          [] OTHER -> Err(Unit)

(* #[derive(Debug)] of PackageType: the variant's name *)
DebugPackageType(package_type) ==
    CASE package_type = "Npm" -> <<"N", "p", "m">>
      [] package_type = "PyPi" -> <<"P", "y", "P", "i">>
      [] package_type = "Maven" -> <<"M", "a", "v", "e", "n">>
      [] package_type = "RubyGems" -> <<"R", "u", "b", "y", "G", "e", "m", "s">>
      [] package_type = "Nuget" -> <<"N", "u", "g", "e", "t">>
      [] package_type = "Cargo" -> <<"C", "a", "r", "g", "o">>
      [] package_type = "Golang" -> <<"G", "o", "l", "a", "n", "g">>

(* Display writing the Debug name as it is *)
DisplayPackageType_NotLowered(package_type) == DebugPackageType(package_type)

(* impl Display for PackageType *)
DisplayPackageType(package_type) == to_lowercase(DebugPackageType(package_type))

(* purl::PackageType, an enum of the purl crate with more variants than    *)
(* the seven matched here                                                  *)
PurlPackageType ==
    {"Cargo", "Composer", "Gem", "Golang", "Maven", "Npm", "NuGet", "PyPI"}

(* impl From<PackageType> for purl::PackageType *)
PurlFromPackageType(package_type) ==
    CASE package_type = "Npm" -> "Npm"
      [] package_type = "PyPi" -> "PyPI"
      [] package_type = "Maven" -> "Maven"
      [] package_type = "RubyGems" -> "Gem"
      [] package_type = "Nuget" -> "NuGet"
      [] package_type = "Cargo" -> "Cargo"
      [] package_type = "Golang" -> "Golang"

(* try_from with the NuGet arm left out *)
PackageTypeTryFromPurl_NoNuGet(package_type) ==
    CASE package_type = "Cargo" -> Ok("Cargo")
      [] package_type = "Gem" -> Ok("RubyGems")
      [] package_type = "Golang" -> Ok("Golang")
      [] package_type = "Maven" -> Ok("Maven")
      [] package_type = "Npm" -> Ok("Npm")
      [] package_type = "PyPI" -> Ok("PyPi")
      [] OTHER -> Err("UnsupportedPackageType")

(* impl TryFrom<purl::PackageType> for PackageType *)
PackageTypeTryFromPurl(package_type) ==
    CASE package_type = "Cargo" -> Ok("Cargo")
      [] package_type = "Gem" -> Ok("RubyGems")
      [] package_type = "Golang" -> Ok("Golang")
      [] package_type = "Maven" -> Ok("Maven")
      [] package_type = "Npm" -> Ok("Npm")
      [] package_type = "NuGet" -> Ok("Nuget")
      [] package_type = "PyPI" -> Ok("PyPi")
      [] OTHER -> Err("UnsupportedPackageType")

(* impl From<&PackageDescriptor> for PackageSpecifier *)
SpecifierFromDescriptor(descriptor) ==
    [registry |-> DisplayPackageType(descriptor.package_type),
     name |-> descriptor.name,
     version |-> descriptor.version]

(* impl TryFrom<PackageSpecifier> for PackageDescriptor *)
DescriptorTryFromSpecifier(value) ==
    LET package_type == from_str(value.registry)
    IN  IF ~package_type.ok
        THEN Err([text |-> "Failed to convert registry {registry} to package type",
                  args |-> <<value.registry>>])
        ELSE Ok([name |-> value.name,
                 version |-> value.version,
                 package_type |-> package_type.v])

(* from with the Malicious arm returning its neighbour's RiskType *)
RiskTypeFromRiskDomain_MaliciousMisplaced(risk_domain) ==
    CASE risk_domain = "Malicious" -> "Vulnerabilities"
      [] risk_domain = "Vulnerabilities" -> "Vulnerabilities"
      [] risk_domain = "EngineeringRisk" -> "EngineeringRisk"
      [] risk_domain = "AuthorRisk" -> "AuthorsRisk"
      [] risk_domain = "LicenseRisk" -> "LicenseRisk"

(* impl From<RiskDomain> for RiskType *)
RiskTypeFromRiskDomain(risk_domain) ==
    CASE risk_domain = "Malicious" -> "MaliciousRisk"
      [] risk_domain = "Vulnerabilities" -> "Vulnerabilities"
      [] risk_domain = "EngineeringRisk" -> "EngineeringRisk"
      [] risk_domain = "AuthorRisk" -> "AuthorsRisk"
      [] risk_domain = "LicenseRisk" -> "LicenseRisk"

(* The variants of a unit enum *)
VariantNames(variants) == {variants[i].name : i \in DOMAIN variants}

----------------------------------------------------------------------------
(* Bounds of the model *)
MaxPackages == 2   \* longest packages / issues list of a job status
MaxDepth == 1      \* deepest nesting of Package.dependencies
MaxCasePos == 3    \* leading characters of a registry string tried in both cases

SeqsUpTo(S, n) == UNION {[1..len -> S] : len \in 0..n}
Opt(S) == {None} \cup {Some(x) : x \in S}

(* Values of each wire type, from all-optional-absent to fully populated *)
IssueValues ==
    {[tag |-> o, id |-> o, title |-> "title", description |-> "text",
      severity |-> l, domain |-> d, rule |-> r] :
        o \in Opt({"x"}), l \in {"Info", "Critical"},
        d \in VariantNames(RiskDomain), r \in Opt({"rule-1"})}

IssueSample(r) ==
    [tag |-> Some("x"), id |-> None, title |-> "title", description |-> "text",
     severity |-> "High", domain |-> "Malicious", rule |-> r]

IssueStatusValues ==
    {[issue |-> i, ignored |-> g] :
        i \in {IssueSample(None), IssueSample(Some("rule-1"))},
        g \in Opt({"wontfix"})}

PackageStatusValues ==
    {[purl |-> u, name |-> "left-pad", version |-> "1.0.0", status |-> st,
      last_updated |-> 7, license |-> o, package_score |-> sc,
      num_dependencies |-> 2, num_vulnerabilities |-> nv] :
        u \in Opt({"pkg:npm/left-pad@1.0.0"}), st \in VariantNames(Status),
        o \in Opt({"MIT"}), sc \in Opt({1}), nv \in Opt({0})}

PackageStatusSample(o) ==
    [purl |-> o, name |-> "left-pad", version |-> "1.0.0",
     status |-> "Complete", last_updated |-> 7, license |-> o,
     package_score |-> IF o = None THEN None ELSE Some(1),
     num_dependencies |-> 2,
     num_vulnerabilities |-> IF o = None THEN None ELSE Some(0)]

PackageStatusExtendedValues ==
    {[basic_status |-> PackageStatusSample(o), package_type |-> pt,
      risk_vectors |-> rv, dependencies |-> deps, issues |-> is] :
        o \in Opt({"x"}), pt \in {"Npm", "PyPi"},
        rv \in {{}, {<<"vulnerability", 1>>, <<"license", 0>>}},
        deps \in {{}, {<<"is-odd", "^3.0">>}},
        is \in SeqsUpTo({[issue |-> IssueSample(None), ignored |-> None]},
                        MaxPackages)}

PackageDescriptorValues ==
    {[name |-> "left-pad", version |-> "1.0.0", package_type |-> pt] :
        pt \in VariantNames(PackageType)}

PackageSpecifierValues ==
    {[registry |-> r, name |-> "left-pad", version |-> "1.0.0"] :
        r \in {<<"n", "p", "m">>, <<"P", "y", "P", "I">>}}

PackageDescriptorAndLockfileValues ==
    {[package_descriptor |-> d, lockfile |-> l] :
        d \in PackageDescriptorValues, l \in Opt({"package-lock.json"})}

PackageSpecifierAndLockfileValues ==
    {[package_specifier |-> sp, lockfile |-> l] :
        sp \in PackageSpecifierValues, l \in Opt({"package-lock.json"})}

PackageUrlAndLockfileValues ==
    {[purl |-> "pkg:npm/left-pad@1.0.0", lockfile |-> l] :
        l \in Opt({"package-lock.json"})}

RiskScoresValues ==
    {DefaultOf(TStruct("RiskScores")),
     [total |-> 1, vulnerability |-> 2, malicious |-> 3, author |-> 4,
      engineering |-> 5, license |-> 6]}

PackageMinimal == DefaultOf(TStruct("Package"))

PackageFull(purl, rule) ==
    [purl |-> purl, id |-> "npm:left-pad:1.0.0", name |-> "left-pad",
     version |-> "1.0.0", registry |-> "npm",
     published_date |-> Some("2020-01-01"), latest_version |-> Some("1.3.0"),
     versions |-> << [version |-> "1.0.0", total_risk_score |-> Some(1)],
                     [version |-> "1.3.0", total_risk_score |-> None] >>,
     description |-> Some("pads"), license |-> Some("MIT"),
     dep_specs |-> << [registry |-> <<"n", "p", "m">>, name |-> "is-odd",
                       version |-> "^3.0"] >>,
     dependencies |-> None, download_count |-> 9,
     risk_scores |-> [total |-> 1, vulnerability |-> 2, malicious |-> 3,
                      author |-> 4, engineering |-> 5, license |-> 6],
     total_risk_score_dynamics |->
        Some(<< [date_time |-> "2020-01-01T00:00:00Z", score |-> 1,
                 label |-> "v1"] >>),
     issues_details |-> << IssueSample(rule) >>,
     issues |-> << [risk_type |-> "MaliciousRisk", score |-> 1,
                    impact |-> "High", description |-> "text",
                    title |-> "title", tag |-> Some("x"), id |-> None,
                    ignored |-> Some("wontfix")] >>,
     authors |-> << [name |-> "a", avatar_url |-> "u", email |-> "e",
                     profile_url |-> "p"] >>,
     developer_responsiveness |->
        Some([open_issue_count |-> Some(1), total_issue_count |-> Some(2),
              open_issue_avg_duration |-> None,
              open_pull_request_count |-> Some(3),
              total_pull_request_count |-> None,
              open_pull_request_avg_duration |-> Some(4)]),
     complete |-> TRUE,
     release_data |-> Some([first_release_date |-> "2019-01-01",
                            last_release_date |-> "2020-01-01"]),
     repo_url |-> Some("https://example.org"),
     maintainers_recently_changed |-> Some(FALSE),
     is_abandonware |-> Some(TRUE)]

PackageLeaves ==
    {PackageMinimal,
     [PackageMinimal EXCEPT !.name = "left-pad", !.version = "1.0.0"],
     PackageFull(None, None),
     PackageFull(Some("pkg:npm/left-pad@1.0.0"), None),
     PackageFull(Some("pkg:npm/left-pad@1.0.0"), Some("rule-1"))}

RECURSIVE PackageTrees(_)
PackageTrees(depth) ==
    IF depth = 0 THEN PackageLeaves
    ELSE PackageLeaves \cup
         {[p EXCEPT !.dependencies = Some(deps)] :
            p \in PackageLeaves,
            deps \in SeqsUpTo(PackageTrees(depth - 1), 1)}

PackageValues == PackageTrees(MaxDepth)

PackageSubmitResponseValues ==
    {[variant |-> "AlreadyProcessed", v |-> Some(p)] : p \in PackageValues}
    \cup {[variant |-> "AlreadySubmitted", v |-> None],
          [variant |-> "New", v |-> None]}

SubmitPackageRequestValues ==
    {[packages |-> ps, is_user |-> TRUE, project |-> "proj-1",
      label |-> "main", group_name |-> g] :
        ps \in SeqsUpTo({[package_descriptor |->
                             [name |-> "left-pad", version |-> "1.0.0",
                              package_type |-> "Npm"],
                          lockfile |-> None]}, 1),
        g \in Opt({"team"})}

JobStatusResponseOf(packages, o) ==
    [job_id |-> "job-123",
     ecosystems |-> IF o = None THEN <<>> ELSE <<"npm">>,
     user_id |-> "user-1", user_email |-> "u@example.org", created_at |-> 5,
     status |-> "Incomplete", pass |-> FALSE, msg |-> "running",
     num_incomplete |-> IF o = None THEN 0 ELSE 1, last_updated |-> 7,
     project |-> "proj-1", project_name |-> "proj", label |-> o,
     packages |-> packages]

PackageStatusExtendedSample(o) ==
    [basic_status |-> PackageStatusSample(o), package_type |-> "Npm",
     risk_vectors |-> IF o = None THEN {} ELSE {<<"vulnerability", 1>>},
     dependencies |-> IF o = None THEN {} ELSE {<<"is-odd", "^3.0">>},
     issues |-> IF o = None THEN <<>>
                ELSE << [issue |-> IssueSample(None), ignored |-> o] >>]

JobStatusResponseVariantValues ==
    {[variant |-> "Extended", v |-> JobStatusResponseOf(ps, o)] :
        ps \in SeqsUpTo({PackageStatusExtendedSample(None),
                         PackageStatusExtendedSample(Some("x"))}, MaxPackages),
        o \in Opt({"main"})}
    \cup
    {[variant |-> "Basic", v |-> JobStatusResponseOf(ps, o)] :
        ps \in SeqsUpTo({PackageStatusSample(None),
                         PackageStatusSample(Some("x"))}, MaxPackages),
        o \in Opt({"main"})}

ScoredVersionValues ==
    {[version |-> "1.0.0", total_risk_score |-> o] : o \in Opt({1})}

ScoreDynamicsPointValues ==
    {[date_time |-> "2020-01-01T00:00:00Z", score |-> 1, label |-> "v1"]}

IssuesListItemValues ==
    {[risk_type |-> rt, score |-> 1, impact |-> "Low", description |-> "text",
      title |-> "title", tag |-> o, id |-> o, ignored |-> o] :
        rt \in VariantNames(RiskType), o \in Opt({"x"})}

AuthorValues ==
    {[name |-> "a", avatar_url |-> "u", email |-> "e", profile_url |-> "p"]}

DeveloperResponsivenessValues ==
    {[open_issue_count |-> o, total_issue_count |-> o,
      open_issue_avg_duration |-> o, open_pull_request_count |-> o,
      total_pull_request_count |-> o, open_pull_request_avg_duration |-> o] :
        o \in Opt({3})}

PackageReleaseDataValues ==
    {DefaultOf(TStruct("PackageReleaseData")),
     [first_release_date |-> "2019-01-01", last_release_date |-> "2020-01-01"]}

HeuristicResultValues ==
    {[domain |-> d, score |-> 1, risk_level |-> "Medium"] :
        d \in VariantNames(RiskDomain)}

VulnerabilityValues ==
    {[cve |-> c, base_severity |-> 9, risk_level |-> "High", title |-> "title",
      description |-> "text", remediation |-> "upgrade"] :
        c \in SeqsUpTo({"CVE-2020-1"}, 1)}

JobDescriptorValues ==
    {[job_id |-> "job-123", project |-> "proj", label |-> "main",
      num_dependencies |-> Len(ps), packages |-> ps, pass |-> TRUE,
      msg |-> "ok", date |-> "2020-01-01", ecosystems |-> es,
      num_incomplete |-> Len(es)] :
        ps \in SeqsUpTo(PackageDescriptorAndLockfileValues, 1),
        es \in SeqsUpTo({"npm"}, 1)}

AllJobsStatusResponseValues ==
    {[jobs |-> js, total_jobs |-> 9, count |-> Len(js)] :
        js \in SeqsUpTo({[job_id |-> "job-123", project |-> "proj",
                          label |-> "main", num_dependencies |-> 0,
                          packages |-> <<>>, pass |-> FALSE, msg |-> "",
                          date |-> "2020-01-01", ecosystems |-> <<>>,
                          num_incomplete |-> 0]}, MaxPackages)}

(* The wire types and the values of each a producer serializes *)
WireTypes ==
    {TEnum("RiskDomain"), TEnum("RiskLevel"), TEnum("PackageType"),
     TEnum("RiskType"),
     TStruct("Issue"), TStruct("IssueStatus"), TStruct("RiskScores"),
     TStruct("PackageSpecifier"), TStruct("PackageDescriptor"),
     TStruct("PackageDescriptorAndLockfile"),
     TStruct("PackageSpecifierAndLockfile"), TStruct("PackageUrlAndLockfile"),
     TStruct("PackageStatus"), TStruct("PackageStatusExtended"),
     TStruct("Package"), TAdjacent("PackageSubmitResponse"),
     TStruct("SubmitPackageRequest"), TStruct("SubmitPackageResponse"),
     TStruct("CancelJobResponse"),
     TStruct("ScoredVersion"), TStruct("ScoreDynamicsPoint"),
     TStruct("IssuesListItem"), TStruct("Author"),
     TStruct("DeveloperResponsiveness"), TStruct("PackageReleaseData"),
     TStruct("HeuristicResult"), TStruct("Vulnerability"),
     TStruct("JobDescriptor"), TStruct("AllJobsStatusResponse"),
     TUntagged("JobStatusResponseVariant")}

Values(t) ==
    CASE t.k = "enum" -> VariantNames(Variants(t.name))
      [] t.k = "untagged" -> JobStatusResponseVariantValues
      [] t.k = "adjacent" -> PackageSubmitResponseValues
      [] t.name = "Issue" -> IssueValues
      [] t.name = "IssueStatus" -> IssueStatusValues
      [] t.name = "RiskScores" -> RiskScoresValues
      [] t.name = "PackageSpecifier" -> PackageSpecifierValues
      [] t.name = "PackageDescriptor" -> PackageDescriptorValues
      [] t.name = "PackageDescriptorAndLockfile" ->
            PackageDescriptorAndLockfileValues
      [] t.name = "PackageSpecifierAndLockfile" ->
            PackageSpecifierAndLockfileValues
      [] t.name = "PackageUrlAndLockfile" -> PackageUrlAndLockfileValues
      [] t.name = "PackageStatus" -> PackageStatusValues
      [] t.name = "PackageStatusExtended" -> PackageStatusExtendedValues
      [] t.name = "Package" -> PackageValues
      [] t.name = "SubmitPackageRequest" -> SubmitPackageRequestValues
      [] t.name = "SubmitPackageResponse" -> {[job_id |-> "job-123"]}
      [] t.name = "CancelJobResponse" -> {[msg |-> "cancelled"]}
      [] t.name = "ScoredVersion" -> ScoredVersionValues
      [] t.name = "ScoreDynamicsPoint" -> ScoreDynamicsPointValues
      [] t.name = "IssuesListItem" -> IssuesListItemValues
      [] t.name = "Author" -> AuthorValues
      [] t.name = "DeveloperResponsiveness" -> DeveloperResponsivenessValues
      [] t.name = "PackageReleaseData" -> PackageReleaseDataValues
      [] t.name = "HeuristicResult" -> HeuristicResultValues
      [] t.name = "Vulnerability" -> VulnerabilityValues
      [] t.name = "JobDescriptor" -> JobDescriptorValues
      [] t.name = "AllJobsStatusResponse" -> AllJobsStatusResponseValues

----------------------------------------------------------------------------
(* Documents of other producers: older services, partial payloads *)
Drop(o, keys) == [key \in DOMAIN o \ keys |-> o[key]]
Put(o, key, j) == (key :> j) @@ o
RenameKey(o, from, to) ==
    IF from \in DOMAIN o THEN (to :> o[from]) @@ Drop(o, {from}) ELSE o

RECURSIVE RenameKeys(_, _)
RenameKeys(o, pairs) ==
    IF pairs = {} THEN o
    ELSE LET pr == CHOOSE x \in pairs : TRUE
         IN  RenameKeys(RenameKey(o, pr[1], pr[2]), pairs \ {pr})

(* The legacy names older producers emit: <<canonical, legacy>> *)
LegacyKeys(t) ==
    CASE t = TStruct("Issue") ->
            {<<"severity", "risk_level">>, <<"domain", "risk_domain">>}
      [] t = TStruct("RiskScores") -> {<<"malicious_code", "malicious">>}
      [] t = TStruct("PackageSpecifier") -> {<<"registry", "type">>}
      [] t = TStruct("PackageDescriptor") -> {<<"type", "registry">>}
      [] t = TStruct("PackageDescriptorAndLockfile") -> {<<"type", "registry">>}
      [] OTHER -> {}

LegacyStrings(t) ==
    CASE t = TEnum("RiskDomain") -> {<<"malicious_code", "malicious">>}
      [] t = TEnum("RiskType") -> {<<"maliciousCodeRisk", "maliciousRisk">>}
      [] OTHER -> {}

(* A job status entry as the newest producer writes it, and cut down *)
ExtendedEntry ==
    Serialize(TStruct("PackageStatusExtended"),
              PackageStatusExtendedSample(Some("x"))).o
ExtendedKeys == {"type", "riskVectors", "dependencies", "issues"}
EntryShapes ==
    {Drop(ExtendedEntry, ks) :
        ks \in {{}, ExtendedKeys, {"name"}, ExtendedKeys \cup {"name"}}
               \cup {{key} : key \in ExtendedKeys}}
    \cup {Put(ExtendedEntry, "type", JStr("cocoapods"))}

Envelope ==
    Serialize(TStruct("JobStatusResponse<PackageStatus>"),
              JobStatusResponseOf(<<>>, Some("main"))).o
EnvelopeShapes ==
    {Envelope, Drop(Envelope, {"ecosystems", "num_incomplete", "label"}),
     Drop(Envelope, {"job_id"})}

JobStatusPayloads ==
    {JObj(Put(env, "packages", JArr([i \in DOMAIN ps |-> JObj(ps[i])]))) :
        env \in EnvelopeShapes, ps \in SeqsUpTo(EntryShapes, MaxPackages)}

Payloads(t) ==
    CASE t.k = "untagged" -> JobStatusPayloads
      [] t.k = "enum" ->
            {JStr(pr[2]) : pr \in LegacyStrings(t)} \cup {JStr("unknown")}
      [] t.k = "struct" ->
            {JObj(RenameKeys(Serialize(t, v).o, pairs)) :
                v \in Values(t), pairs \in SUBSET LegacyKeys(t) \ {{}}}
            \cup {JNull}
      [] OTHER -> {JObj("status" :> JStr("New") @@ "data" :> JNull),
                   JObj("status" :> JStr("AlreadyProcessed")),
                   JObj("data" :> JNull)}

(* Registry strings callers pass: every alias, some strings that are no   *)
(* alias, each in several letter cases                                     *)
RegistryWords ==
    {<<"n", "p", "m">>, <<"p", "y", "t", "h", "o", "n">>, <<"p", "y", "p", "i">>,
     <<"m", "a", "v", "e", "n">>,
     <<"m", "a", "v", "e", "n", "-", "c", "e", "n", "t", "r", "a", "l">>,
     <<"r", "u", "b", "y">>, <<"r", "u", "b", "y", "g", "e", "m", "s">>,
     <<"g", "e", "m">>, <<"n", "u", "g", "e", "t">>,
     <<"d", "o", "t", "n", "e", "t">>, <<"c", "a", "r", "g", "o">>,
     <<"g", "o", "l", "a", "n", "g">>,
     <<"c", "o", "c", "o", "a", "p", "o", "d", "s">>, <<"p", "i", "p">>,
     <<"g", "o">>, <<"n", "p", "m", "j", "s">>, <<"c", "o", "m", "p", "o", "s", "e", "r">>,
     <<>>}

UpperAt(s, ups) ==
    [i \in DOMAIN s |->
        IF i \in ups /\ \E c \in DOMAIN LowerCase : LowerCase[c] = s[i]
        THEN UpperCase[CHOOSE c \in DOMAIN LowerCase : LowerCase[c] = s[i]]
        ELSE s[i]]

RegistryStrings ==
    {UpperAt(w, ups) : w \in RegistryWords, ups \in SUBSET (1..MaxCasePos)}
    \cup {UpperAt(w, DOMAIN w) : w \in RegistryWords}

PackageSpecifierInputs ==
    {[registry |-> r, name |-> "left-pad", version |-> "1.0.0"] :
        r \in RegistryStrings}

----------------------------------------------------------------------------
Init ==
    /\ phase = "idle"
    /\ ty = None
    /\ sent = None
    /\ wire = None
    /\ recv = None
    /\ call = None

(* A producer serializes a value of a wire type *)
Encode ==
    \E t \in WireTypes : \E v \in Values(t) :
        /\ phase = "idle"
        /\ phase' = "encoded"
        /\ ty' = Some(t)
        /\ sent' = Some(v)
        /\ wire' = Some(Serialize(t, v))
        /\ recv' = None
        /\ call' = None

(* A document of another producer arrives *)
Receive ==
    \E t \in WireTypes : \E j \in Payloads(t) :
        /\ phase = "idle"
        /\ phase' = "received"
        /\ ty' = Some(t)
        /\ sent' = None
        /\ wire' = Some(j)
        /\ recv' = None
        /\ call' = None

(* The consumer deserializes the document in flight *)
Decode ==
    /\ phase \in {"encoded", "received"}
    /\ phase' = "decoded"
    /\ recv' = Some(Deserialize(ty[1], wire[1]))
    /\ UNCHANGED <<ty, sent, wire, call>>

Called(op, arg, res, origin) ==
    /\ phase' = "called"
    /\ ty' = None
    /\ sent' = None
    /\ wire' = None
    /\ recv' = None
    /\ call' = Some([op |-> op, arg |-> arg, res |-> res, origin |-> origin])

(* PackageType::from_str(input) *)
FromStr ==
    \E input \in RegistryStrings :
        /\ phase = "idle"
        /\ Called("PackageType::from_str", input, from_str(input), None)

(* PackageDescriptor::try_from(specifier) *)
TryFromSpecifier ==
    \E value \in PackageSpecifierInputs :
        /\ phase = "idle"
        /\ Called("PackageDescriptor::try_from", value,
                  DescriptorTryFromSpecifier(value), None)

(* PackageSpecifier::from(&descriptor), of a descriptor at hand or of the  *)
(* one just built from a specifier (which origin then remembers)           *)
FromDescriptor ==
    \/ \E descriptor \in PackageDescriptorValues :
        /\ phase = "idle"
        /\ Called("PackageSpecifier::from", descriptor,
                  SpecifierFromDescriptor(descriptor), None)
    \/ /\ phase = "called"
       /\ call[1].op = "PackageDescriptor::try_from"
       /\ call[1].res.ok
       /\ Called("PackageSpecifier::from", call[1].res.v,
                 SpecifierFromDescriptor(call[1].res.v), Some(call[1].arg))

(* purl::PackageType::from(package_type) *)
ToPurl ==
    \E package_type \in VariantNames(PackageType) :
        /\ phase = "idle"
        /\ Called("purl::PackageType::from", package_type,
                  PurlFromPackageType(package_type), None)

(* PackageType::try_from(purl_type), of a purl type at hand or of the one  *)
(* just converted from a PackageType                                       *)
FromPurl ==
    \/ \E package_type \in PurlPackageType :
        /\ phase = "idle"
        /\ Called("PackageType::try_from", package_type,
                  PackageTypeTryFromPurl(package_type), None)
    \/ /\ phase = "called"
       /\ call[1].op = "purl::PackageType::from"
       /\ Called("PackageType::try_from", call[1].res,
                 PackageTypeTryFromPurl(call[1].res), Some(call[1].arg))

(* RiskType::from(risk_domain) *)
FromRiskDomain ==
    \E risk_domain \in VariantNames(RiskDomain) :
        /\ phase = "idle"
        /\ Called("RiskType::from", risk_domain,
                  RiskTypeFromRiskDomain(risk_domain), None)

Next ==
    \/ Encode
    \/ Receive
    \/ Decode
    \/ FromStr
    \/ TryFromSpecifier
    \/ FromDescriptor
    \/ ToPurl
    \/ FromPurl
    \/ FromRiskDomain

Spec == Init /\ [][Next]_vars

----------------------------------------------------------------------------
(* What the claims say about a job status document, read off the document  *)
JobStatusVariant == TUntagged("JobStatusResponseVariant")
DecodedAs(t) == phase = "decoded" /\ ty = Some(t)
Document == wire[1]
Result == recv[1]
Entries == Document.o["packages"].a

IsStr(o, key) == key \in DOMAIN o /\ o[key].t = "str"
IsNum(o, key) == key \in DOMAIN o /\ o[key].t = "num"
IsBool(o, key) == key \in DOMAIN o /\ o[key].t = "bool"

EnvelopeValid(o) ==
    /\ \A key \in {"job_id", "user_id", "user_email", "msg", "project",
                   "project_name"} : IsStr(o, key)
    /\ IsNum(o, "created_at") /\ IsNum(o, "last_updated")
    /\ IsStr(o, "status") /\ o["status"].s \in {"complete", "incomplete"}
    /\ IsBool(o, "pass")
    /\ "packages" \in DOMAIN o /\ o["packages"].t = "arr"

CarriesBasic(o) ==
    /\ IsStr(o, "name") /\ IsStr(o, "version")
    /\ IsStr(o, "status") /\ o["status"].s \in {"complete", "incomplete"}
    /\ IsNum(o, "last_updated") /\ IsNum(o, "num_dependencies")

CarriesExtended(o) ==
    /\ IsStr(o, "type")
    /\ o["type"].s \in {"npm", "pypi", "maven", "rubygems", "nuget", "cargo",
                        "golang"}
    /\ {"riskVectors", "dependencies"} \subseteq DOMAIN o
    /\ o["riskVectors"].t = "obj" /\ o["dependencies"].t = "obj"
    /\ "issues" \in DOMAIN o /\ o["issues"].t = "arr"

FitsBasic ==
    /\ EnvelopeValid(Document.o)
    /\ \A i \in DOMAIN Entries : CarriesBasic(Entries[i].o)

FitsExtended ==
    /\ FitsBasic
    /\ \A i \in DOMAIN Entries : CarriesExtended(Entries[i].o)

(* C1: a job status document whose envelope is valid and whose every       *)
(* package entry carries the PackageStatus fields and the four fields       *)
(* PackageStatusExtended adds deserializes to the Extended arm, never Basic *)
C1_ExtendedWhenBothShapesFit ==
    (DecodedAs(JobStatusVariant) /\ FitsExtended)
        => (Result.ok /\ Result.v.variant = "Extended")

C1_Witness ==
    /\ DecodedAs(JobStatusVariant) /\ sent = None
    /\ FitsExtended
    /\ Len(Entries) > 1
    /\ Result.ok /\ Result.v.variant = "Extended"

(* C2: when an entry lacks one of the four extended fields but every entry *)
(* fits PackageStatus the result is Ok(Basic), no error; Basic is returned *)
(* only if some entry does not fit the extended shape; an error is         *)
(* returned only for a document that fits neither shape                    *)
C2_BasicOnlyAsFallback ==
    DecodedAs(JobStatusVariant) =>
        /\ (FitsBasic /\ ~FitsExtended)
              => (Result.ok /\ Result.v.variant = "Basic")
        /\ (Result.ok /\ Result.v.variant = "Basic") => ~FitsExtended
        /\ ~Result.ok => ~FitsBasic

C2_Witness ==
    /\ DecodedAs(JobStatusVariant) /\ sent = None
    /\ FitsBasic
    /\ \E i \in DOMAIN Entries : "riskVectors" \notin DOMAIN Entries[i].o
    /\ \E i \in DOMAIN Entries : CarriesExtended(Entries[i].o)
    /\ Result.ok /\ Result.v.variant = "Basic"

C2_WitnessError ==
    /\ DecodedAs(JobStatusVariant) /\ sent = None
    /\ EnvelopeValid(Document.o) /\ ~FitsBasic
    /\ ~Result.ok

----------------------------------------------------------------------------
FieldType(fields, n) ==
    (CHOOSE f \in {fields[i] : i \in DOMAIN fields} : f.name = n).ty

(* A value with the rule of every Issue in it absent *)
RECURSIVE WithoutRule(_, _)
WithoutRule(t, v) ==
    CASE t.k = "Option" ->
            IF v = None THEN None ELSE Some(WithoutRule(t.of, v[1]))
      [] t.k = "Vec" -> [i \in DOMAIN v |-> WithoutRule(t.of, v[i])]
      [] t.k = "struct" ->
            LET w == [n \in DOMAIN v |->
                        WithoutRule(FieldType(Fields(t.name), n), v[n])]
            IN  IF t.name = "Issue" THEN [w EXCEPT !.rule = None] ELSE w
      [] t.k = "untagged" ->
            [variant |-> v.variant,
             v |-> WithoutRule(
                     TStruct(IF v.variant = "Extended"
                             THEN "JobStatusResponse<PackageStatusExtended>"
                             ELSE "JobStatusResponse<PackageStatus>"), v.v)]
      [] t.k = "adjacent" ->
            IF v.v = None THEN v
            ELSE [variant |-> v.variant,
                  v |-> Some(WithoutRule(TStruct("Package"), v.v[1]))]
      [] OTHER -> v

HasRule(t, v) == WithoutRule(t, v) # v
EmptyBasic(t, v) ==
    t.k = "untagged" /\ v.variant = "Basic" /\ Len(v.v.packages) = 0

RoundTripped == phase = "decoded" /\ sent # None
Original == sent[1]

(* C3 as stated: for every wire type, serializing a value and              *)
(* deserializing the result yields a value equal to the original           *)
C3_RoundTripEveryValue ==
    RoundTripped => Result = Ok(Original)

(* C3 amended: serializing then deserializing yields the original value,   *)
(* except that the rule of every Issue in it comes back absent             *)
(* (#[serde(skip)]) and that a Basic job status with no packages comes     *)
(* back as the Extended arm with the same envelope; a value without a rule *)
(* that is no Basic job status with no packages comes back equal           *)
C3_RoundTripUpToRuleAndEmptyBasic ==
    RoundTripped =>
        LET t == ty[1]
            w == WithoutRule(t, Original)
        IN  /\ Result.ok
            /\ Result.v = IF EmptyBasic(t, w)
                          THEN [w EXCEPT !.variant = "Extended"] ELSE w
            /\ (~HasRule(t, Original) /\ ~EmptyBasic(t, Original))
                  => Result.v = Original

C3_Witness ==
    /\ RoundTripped /\ ty = Some(TAdjacent("PackageSubmitResponse"))
    /\ Original.variant = "AlreadyProcessed"
    /\ Original.v[1].purl # None
    /\ Original.v[1].dependencies # None
    /\ Len(Original.v[1].issues_details) > 0
    /\ ~HasRule(ty[1], Original)
    /\ Result = Ok(Original)

C3_WitnessRuleLost ==
    /\ RoundTripped /\ ty = Some(TStruct("Issue"))
    /\ Original.rule # None
    /\ Result = Ok([Original EXCEPT !.rule = None])

(* C4: AlreadyProcessed(pkg) serializes to an object whose "status" names  *)
(* the variant and whose "data" is pkg's own serialization;                *)
(* AlreadySubmitted and New serialize to an object with "status" alone     *)
C4_SubmitResponseTagAndData ==
    (phase \in {"encoded", "decoded"} /\ sent # None
        /\ ty = Some(TAdjacent("PackageSubmitResponse"))) =>
        /\ Document.t = "obj"
        /\ "status" \in DOMAIN Document.o
        /\ Document.o["status"] = JStr(Original.variant)
        /\ Original.variant = "AlreadyProcessed" =>
              /\ DOMAIN Document.o = {"status", "data"}
              /\ Document.o["data"] =
                    Serialize(TStruct("Package"), Original.v[1])
        /\ Original.variant \in {"AlreadySubmitted", "New"} =>
              DOMAIN Document.o = {"status"}

C4_Witness ==
    /\ phase = "encoded" /\ ty = Some(TAdjacent("PackageSubmitResponse"))
    /\ Original.variant = "AlreadyProcessed"
    /\ Original.v[1].name = "left-pad"
    /\ Document.o["data"].o["name"] = JStr("left-pad")

C4_WitnessNoData ==
    /\ phase = "encoded" /\ ty = Some(TAdjacent("PackageSubmitResponse"))
    /\ Original.variant = "New"
    /\ DOMAIN Document.o = {"status"}

(* The fields the omission rule names, per type: <<field, key>> *)
AbsentByDefault(t) ==
    CASE t = TStruct("Package") -> {<<"purl", "purl">>}
      [] t = TStruct("PackageStatus") ->
            {<<"purl", "purl">>,
             <<"num_vulnerabilities", "num_vulnerabilities">>}
      [] t \in {TStruct("PackageDescriptorAndLockfile"),
                TStruct("PackageSpecifierAndLockfile"),
                TStruct("PackageUrlAndLockfile")} ->
            {<<"lockfile", "lockfile">>}
      [] t = TStruct("SubmitPackageRequest") ->
            {<<"group_name", "group_name">>}
      [] OTHER -> {}

(* C5: an absent purl, lockfile, group_name or num_vulnerabilities has no  *)
(* key in the serialized object (rather than the key with null)            *)
C5_AbsentFieldsOmitted ==
    (phase = "encoded" /\ sent # None) =>
        \A fk \in AbsentByDefault(ty[1]) :
            Original[fk[1]] = None => fk[2] \notin DOMAIN Document.o

(* C5 for the types that carry skip_serializing_if on the field *)
C5_OmittedWhereSkipIfNone ==
    (phase = "encoded" /\ sent # None
        /\ ty[1] \notin {TStruct("PackageSpecifierAndLockfile"),
                         TStruct("PackageUrlAndLockfile")}) =>
        \A fk \in AbsentByDefault(ty[1]) :
            Original[fk[1]] = None => fk[2] \notin DOMAIN Document.o

----------------------------------------------------------------------------
CalledOp(op) == phase = "called" /\ call[1].op = op
Arg == call[1].arg
Res == call[1].res
Origin == call[1].origin

(* The alias table of the ecosystem names: <<lower-case alias, type>> *)
AliasTable ==
    {<<<<"n", "p", "m">>, "Npm">>,
     <<<<"p", "y", "t", "h", "o", "n">>, "PyPi">>,
     <<<<"p", "y", "p", "i">>, "PyPi">>,
     <<<<"m", "a", "v", "e", "n">>, "Maven">>,
     <<<<"m", "a", "v", "e", "n", "-", "c", "e", "n", "t", "r", "a", "l">>,
       "Maven">>,
     <<<<"r", "u", "b", "y">>, "RubyGems">>,
     <<<<"r", "u", "b", "y", "g", "e", "m", "s">>, "RubyGems">>,
     <<<<"g", "e", "m">>, "RubyGems">>,
     <<<<"n", "u", "g", "e", "t">>, "Nuget">>,
     <<<<"d", "o", "t", "n", "e", "t">>, "Nuget">>,
     <<<<"c", "a", "r", "g", "o">>, "Cargo">>,
     <<<<"g", "o", "l", "a", "n", "g">>, "Golang">>}

IsAlias(s) == \E row \in AliasTable : row[1] = to_lowercase(s)
TypeOfAlias(s) == (CHOOSE row \in AliasTable : row[1] = to_lowercase(s))[2]
HasUpperCase(s) == \E i \in DOMAIN s : \E c \in DOMAIN UpperCase : UpperCase[c] = s[i]

(* An error value carries a string when it is one of its arguments *)
Carries(e, s) ==
    "args" \in DOMAIN e /\ \E i \in DOMAIN e.args : e.args[i] = s

(* C6 as stated: an alias in any letter case parses to its table row's     *)
(* type; any other string is a failure that carries the offending string   *)
C6_FromStrErrorCarriesInput ==
    CalledOp("PackageType::from_str") =>
        IF IsAlias(Arg) THEN Res = Ok(TypeOfAlias(Arg))
        ELSE ~Res.ok /\ Carries(Res.e, Arg)

(* C6 amended: an alias in any letter case parses to its table row's type; *)
(* any other string is the failure Err(()), which carries no data (the     *)
(* offending string is not in it); never a default ecosystem               *)
C6_FromStrAliasesOrUnit ==
    CalledOp("PackageType::from_str") =>
        IF IsAlias(Arg) THEN Res = Ok(TypeOfAlias(Arg))
        ELSE Res = Err(Unit) /\ ~Carries(Res.e, Arg)

C6_Witness ==
    /\ CalledOp("PackageType::from_str")
    /\ HasUpperCase(Arg) /\ to_lowercase(Arg) = <<"p", "y", "p", "i">>
    /\ Res = Ok("PyPi")

C6_WitnessUnknown ==
    /\ CalledOp("PackageType::from_str")
    /\ to_lowercase(Arg) = <<"c", "o", "c", "o", "a", "p", "o", "d", "s">>
    /\ Res = Err(Unit)

(* The canonical registry name of each ecosystem *)
CanonicalName(package_type) ==
    CASE package_type = "Npm" -> <<"n", "p", "m">>
      [] package_type = "PyPi" -> <<"p", "y", "p", "i">>
      [] package_type = "Maven" -> <<"m", "a", "v", "e", "n">>
      [] package_type = "RubyGems" -> <<"r", "u", "b", "y", "g", "e", "m", "s">>
      [] package_type = "Nuget" -> <<"n", "u", "g", "e", "t">>
      [] package_type = "Cargo" -> <<"c", "a", "r", "g", "o">>
      [] package_type = "Golang" -> <<"g", "o", "l", "a", "n", "g">>

(* C7 as stated: a descriptor built from a specifier converts back to a    *)
(* specifier equal to the original                                         *)
C7_SpecifierRoundTripsEqual ==
    (CalledOp("PackageSpecifier::from") /\ Origin # None) => Res = Origin[1]

(* C7 amended: try_from fails with an error naming the registry when the   *)
(* registry parses to no PackageType, and never substitutes an ecosystem;  *)
(* otherwise it yields a descriptor with the same name and version and the *)
(* parsed type, whose conversion back has the same name and version and    *)
(* the type's canonical lower-case name as registry: it equals the         *)
(* original exactly when the original registry already was that name, and  *)
(* it parses to the same PackageType                                       *)
C7_SpecifierRoundTripsCanonical ==
    /\ CalledOp("PackageDescriptor::try_from") =>
          IF IsAlias(Arg.registry)
          THEN Res = Ok([name |-> Arg.name, version |-> Arg.version,
                         package_type |-> TypeOfAlias(Arg.registry)])
          ELSE ~Res.ok /\ Carries(Res.e, Arg.registry)
    /\ (CalledOp("PackageSpecifier::from") /\ Origin # None) =>
          /\ Res.name = Origin[1].name
          /\ Res.version = Origin[1].version
          /\ Res.registry = CanonicalName(TypeOfAlias(Origin[1].registry))
          /\ Res = Origin[1]
                <=> Origin[1].registry
                        = CanonicalName(TypeOfAlias(Origin[1].registry))
          /\ IsAlias(Res.registry)
          /\ TypeOfAlias(Res.registry) = Arg.package_type

C7_Witness ==
    /\ CalledOp("PackageSpecifier::from") /\ Origin # None
    /\ Origin[1].registry = <<"p", "y", "t", "h", "o", "n">>
    /\ Res.registry = <<"p", "y", "p", "i">>
    /\ Res.name = Origin[1].name

C7_WitnessError ==
    /\ CalledOp("PackageDescriptor::try_from")
    /\ Arg.registry = <<"c", "o", "c", "o", "a", "p", "o", "d", "s">>
    /\ ~Res.ok

(* The seven purl package types the model supports *)
SupportedPurlTypes == {"Cargo", "Gem", "Golang", "Maven", "Npm", "NuGet", "PyPI"}

(* C8: converting a PackageType to the purl package type and back returns  *)
(* the original; a purl package type outside the seven supported ones      *)
(* yields the UnsupportedPackageType error                                 *)
C8_PurlRoundTrip ==
    CalledOp("PackageType::try_from") =>
        /\ Origin # None => Res = Ok(Origin[1])
        /\ Arg \notin SupportedPurlTypes => Res = Err("UnsupportedPackageType")
        /\ Arg \in SupportedPurlTypes => Res.ok

C8_Witness ==
    /\ CalledOp("PackageType::try_from")
    /\ Origin = Some("RubyGems") /\ Arg = "Gem" /\ Res = Ok("RubyGems")

C8_WitnessUnsupported ==
    /\ CalledOp("PackageType::try_from")
    /\ Arg = "Composer" /\ ~Res.ok

(* The document with every legacy name replaced by the canonical one *)
Canonical(t, j) ==
    IF t.k = "enum"
    THEN IF \E pr \in LegacyStrings(t) : j = JStr(pr[2])
         THEN JStr((CHOOSE pr \in LegacyStrings(t) : j = JStr(pr[2]))[1])
         ELSE j
    ELSE IF j.t = "obj"
         THEN JObj(RenameKeys(j.o, {<<pr[2], pr[1]>> : pr \in LegacyKeys(t)}))
         ELSE j

UsesLegacyName(t, j) ==
    \/ t.k = "enum" /\ \E pr \in LegacyStrings(t) : j = JStr(pr[2])
    \/ t.k = "struct" /\ j.t = "obj"
        /\ \E pr \in LegacyKeys(t) : pr[2] \in DOMAIN j.o

(* C9: a document that uses a legacy name deserializes, and to the same    *)
(* value as the otherwise identical document with the canonical name       *)
C9_LegacyNamesDecodeAlike ==
    (phase = "decoded" /\ sent = None /\ UsesLegacyName(ty[1], Document)) =>
        /\ Result.ok
        /\ Result = Deserialize(ty[1], Canonical(ty[1], Document))

C9_Witness ==
    /\ phase = "decoded" /\ sent = None
    /\ ty = Some(TStruct("PackageDescriptorAndLockfile"))
    /\ Document.t = "obj"
    /\ "registry" \in DOMAIN Document.o /\ "type" \notin DOMAIN Document.o
    /\ Document.o["registry"] = JStr("cargo")
    /\ Result.ok /\ Result.v.package_descriptor.package_type = "Cargo"

C9_WitnessIssue ==
    /\ phase = "decoded" /\ sent = None /\ ty = Some(TStruct("Issue"))
    /\ Document.t = "obj"
    /\ {"risk_level", "risk_domain"} \subseteq DOMAIN Document.o
    /\ Result.ok /\ Result.v.severity = "Critical"

(* The fixed table of the mapping *)
RiskTable ==
    {<<"AuthorRisk", "AuthorsRisk">>, <<"EngineeringRisk", "EngineeringRisk">>,
     <<"Malicious", "MaliciousRisk">>, <<"Vulnerabilities", "Vulnerabilities">>,
     <<"LicenseRisk", "LicenseRisk">>}

(* C10: every RiskDomain maps to the RiskType of the fixed table, none to  *)
(* TotalRisk, and no other domain maps to the same RiskType                *)
C10_RiskDomainToRiskType ==
    CalledOp("RiskType::from") =>
        /\ <<Arg, Res>> \in RiskTable
        /\ Res \in VariantNames(RiskType) \ {"TotalRisk"}
        /\ \A other \in VariantNames(RiskDomain) \ {Arg} :
              RiskTypeFromRiskDomain(other) # Res

C10_Witness ==
    /\ CalledOp("RiskType::from")
    /\ Arg = "AuthorRisk" /\ Res = "AuthorsRisk"

----------------------------------------------------------------------------
(* The package type of each arm, and an entry's own decoding as it *)
ArmPackage(variant) ==
    TStruct(IF variant = "Extended" THEN "PackageStatusExtended"
            ELSE "PackageStatus")
DecodesAs(t, j) == Deserialize(t, j).ok
ResultPackages == Result.v.v.packages

(* C11: the arm is chosen for the whole document: every package of the     *)
(* result is the decoding of its entry as the one package type of the arm; *)
(* the result is Basic only if the packages array is non-empty and some    *)
(* entry does not decode as PackageStatusExtended; a document with a valid *)
(* envelope and an empty packages array decodes to Extended, the encoding  *)
(* of a Basic value with no packages included                              *)
C11_ArmChosenForWholeEnvelope ==
    (DecodedAs(JobStatusVariant) /\ Document.t = "obj") =>
        /\ Result.ok =>
              /\ Len(ResultPackages) = Len(Entries)
              /\ \A i \in DOMAIN Entries :
                    Ok(ResultPackages[i])
                        = Deserialize(ArmPackage(Result.v.variant), Entries[i])
        /\ (Result.ok /\ Result.v.variant = "Basic") =>
              /\ Len(Entries) > 0
              /\ \E i \in DOMAIN Entries :
                    ~DecodesAs(TStruct("PackageStatusExtended"), Entries[i])
        /\ (EnvelopeValid(Document.o) /\ Len(Entries) = 0) =>
              /\ Result.ok /\ Result.v.variant = "Extended"
              /\ ResultPackages = << >>
        /\ (sent # None /\ EmptyBasic(ty[1], Original)) =>
              Result = Ok([Original EXCEPT !.variant = "Extended"])

(* A mixed document: one entry decodes as PackageStatusExtended, another   *)
(* does not, and both come back as PackageStatus in a Basic result         *)
C11_Witness ==
    /\ DecodedAs(JobStatusVariant) /\ sent = None /\ Document.t = "obj"
    /\ Len(Entries) = 2
    /\ DecodesAs(TStruct("PackageStatusExtended"), Entries[1])
    /\ ~DecodesAs(TStruct("PackageStatusExtended"), Entries[2])
    /\ Result.ok /\ Result.v.variant = "Basic"
    /\ \A i \in 1..2 : "package_type" \notin DOMAIN ResultPackages[i]

C11_WitnessEmptyDocument ==
    /\ DecodedAs(JobStatusVariant) /\ sent = None /\ Document.t = "obj"
    /\ EnvelopeValid(Document.o) /\ Len(Entries) = 0
    /\ "label" \notin DOMAIN Document.o
    /\ Result.ok /\ Result.v.variant = "Extended"

C11_WitnessEmptyBasic ==
    /\ DecodedAs(JobStatusVariant) /\ sent # None
    /\ EmptyBasic(ty[1], Original)
    /\ Result.ok /\ Result.v.variant = "Extended"
    /\ Result.v.v = Original.v

====
